---- MODULE Spec2Model ----
(***************************************************************************)
(* Two-phase search of src/server.py (search_mercari_items_filtered) over  *)
(* the paginated search generator and the item fetcher of                  *)
(* src/mercari/mercari.py.  The remote marketplace is the environment: it  *)
(* answers every search-page request and every item request               *)
(* nondeterministically, within the limits recorded in env.                *)
(*                                                                         *)
(* Spec: one call of search_mercari_items_filtered.  SpecStream, SpecLoop: *)
(* a direct consumer of mercari.search / search_page.  SpecNorm:           *)
(* parseItemInfo on one wire record.  SpecFetch: the calls fetch makes on  *)
(* the signer and the transport.  SpecItem: mercari.Item built from one    *)
(* element of a search response.                                           *)
(***************************************************************************)
EXTENDS Integers, Sequences, FiniteSets, TLC

VARIABLES
    pc,               \* position of the invocation in search_mercari_items_filtered
    keyword,          \* argument keyword, a sequence of characters
    min_price,        \* argument min_price (None or an integer >= 0)
    max_price,        \* argument max_price (None or an integer >= 0)
    items_found,      \* server.py:64
    top_category_ids, \* server.py:65
    search_results,   \* server.py:72, the phase 1 generator
    category_counter, \* server.py:81, a Counter: (id, count) pairs in insertion order
    sample_count,     \* server.py:82
    attempt_count,    \* server.py:83
    failed_items,     \* server.py:85, its length
    filtered_results, \* server.py:169, the phase 2 generator
    phase2_failed,    \* server.py:179, its length
    phase2_success,   \* server.py:180
    item,             \* the loop variable of the running for loop (a summary)
    exc,              \* the exception in flight or last caught ("none" if none)
    warnings,         \* the logger.warning / logger.error records emitted
    result,           \* the returned list
    outcome,          \* "running", "returned" or "raised"
    last_request,     \* history: the most recent search-page request, if any
    p1_hist,          \* history: how many phase 1 enrichments failed / had a category
    p2_log,           \* history: the outcome of every phase 2 enrichment, in order
    env,              \* limits of the marketplace's answers in this run
    delays,           \* history: the time.sleep(0.15) calls made so far
    s_pc,             \* position of a direct client of mercari.search / search_page
    arg_page_limit,   \* the client's page_limit argument
    stream,           \* the generator the client consumes
    s_exc,            \* the exception the client received ("none" if none)
    page_log,         \* history: the marketplace's answer to every page request
    request_log,      \* history: the data of every page request, in order
    yield_log,        \* history: the items the client received, in order
    page_result,      \* what search_page returned to the client
    raw,              \* the item record on the wire given to parseItemInfo
    record,           \* what parseItemInfo produced for raw
    f_events,         \* history: the sign-request calls and transport calls of fetch
    f_exc,            \* the exception the last fetch raised ("none" if none)
    api_item,         \* one element of resp["items"] of a search response
    summary           \* the mercari.Item built from api_item

\* the variables of a direct client of the search interface
streamVars == << s_pc, arg_page_limit, stream, s_exc, page_log,
                 request_log, yield_log, page_result >>

\* the variables of one normalization
normVars == << raw, record >>

\* the variables of one call of search_mercari_items_filtered
callVars == << pc, keyword, min_price, max_price, items_found, top_category_ids,
               search_results, category_counter, sample_count, attempt_count,
               failed_items, filtered_results, phase2_failed, phase2_success,
               item, exc, warnings, result, outcome, last_request, p1_hist,
               p2_log, env, delays >>

\* the variables of the calls of fetch
fetchVars == << f_events, f_exc >>

\* the variables of one construction of a result summary
itemVars == << api_item, summary >>

vars == << callVars, streamVars, normVars, fetchVars, itemVars >>

-----------------------------------------------------------------------------
(* Bounds of the model *)

MaxPageItems == 2     \* most items the marketplace puts on one page
ShortSupply == 4      \* most items of a discovery stream (wide marketplace)
DeepSupply == 51      \* most items of a discovery stream (deep marketplace)
RefinedSupply == 3    \* most items of a refined stream

-----------------------------------------------------------------------------
(* Program constants *)

None == -1                \* Python None for the optional integer arguments
SampleTarget == 30        \* server.py:89
max_attempts == 50        \* server.py:84
TopN == 3                 \* server.py:147
ReliabilityThreshold == 5 \* server.py:152
MaxPageLimit == 120       \* mercari.py:287
DefaultPageLimit == 120   \* mercari.py:268

NoCategory == "<none>"    \* full_item.item_category is None
NoToken == "<None>"       \* Python None as a page token
AbsentToken == "<absent>" \* the response has no meta.nextPageToken

-----------------------------------------------------------------------------
(* The marketplace *)

CategoryIds == {"A", "B", "C", "D"}

\* Exception classes of a failed request: transport (ConnectionError,
\* HTTPError), authentication (HTTPError with status 401), validation
\* (pydantic ValidationError) and missing field (KeyError).
ErrorKinds == {"ConnectionError", "HTTPError", "HTTPError401",
               "ValidationError", "KeyError"}

Prices == 1..3

\* Many categories, short streams: every outcome of discovery
WideMarket ==
    [ supply1 |-> ShortSupply, supply2 |-> 1,
      cats    |-> CategoryIds \cup {NoCategory, ""},
      prices  |-> Prices,
      kinds   |-> ErrorKinds,
      tokens1 |-> {"", AbsentToken, "c1"},
      tokens2 |-> {"", "c1"} ]

\* One category, a longer refined stream: every outcome of the refined phase
RefinedMarket ==
    [ supply1 |-> 2, supply2 |-> RefinedSupply,
      cats    |-> {"A"},
      prices  |-> Prices,
      kinds   |-> ErrorKinds,
      tokens1 |-> {"", "c1"},
      tokens2 |-> {"", NoToken, AbsentToken, "c1", "c2"} ]

\* One category, discovery streams long enough to reach max_attempts
DeepMarket ==
    [ supply1 |-> DeepSupply, supply2 |-> 1,
      cats    |-> {"A"},
      prices  |-> {2},
      kinds   |-> {"HTTPError"},
      tokens1 |-> {"", "c1"},
      tokens2 |-> {""} ]

Min(a, b) == IF a <= b THEN a ELSE b
Max(a, b) == IF a >= b THEN a ELSE b

-----------------------------------------------------------------------------
(* mercari.py: the search generator *)

\* variant of pageToPageToken: pages are counted from one
pageToPageTokenOneBased(page) == "v1:" \o ToString(page + 1)

\* mercari.py:187
pageToPageToken(page) == "v1:" \o ToString(page)

\* variant of ClampLimit: only the upper end is clamped
ClampLimitUpperOnly(page_limit) == Min(MaxPageLimit, page_limit)

\* mercari.py:287 (and 220)
ClampLimit(page_limit) == Max(1, Min(MaxPageLimit, page_limit))

\* mercari.py:290-304; category_ids is <<>> for None and <<ids>> for a list
SearchCondition(keywords, sort, order, status, exclude_keywords, category_ids) ==
    LET base == [ keyword |-> keywords, sort |-> sort, order |-> order,
                  status |-> <<status>>, excludeKeyword |-> exclude_keywords ]
    IN  IF category_ids # <<>> /\ Len(category_ids[1]) > 0
        THEN base @@ ("categoryIds" :> category_ids[1])
        ELSE base

\* mercari.py:260-325: the generator object returned by search(...), before its
\* first page request
search(keywords, sort, order, status, exclude_keywords, category_ids, page_limit) ==
    [ state           |-> "created",
      data            |-> [ pageSize  |-> ClampLimit(page_limit),
                            pageToken |-> pageToPageToken(0),
                            searchCondition |->
                                SearchCondition(keywords, sort, order, status,
                                                exclude_keywords, category_ids) ],
      has_next_page   |-> TRUE,
      next_page_token |-> NoToken,
      buf             |-> 0,      \* items of the current page not yet yielded
      yielded         |-> 0 ]     \* items yielded so far

\* a name not yet bound to a generator
Unbound ==
    [ state |-> "unbound",
      data  |-> [ pageSize |-> 0, pageToken |-> NoToken,
                  searchCondition |-> << >> ],
      has_next_page |-> FALSE, next_page_token |-> NoToken,
      buf |-> 0, yielded |-> 0 ]

\* variant of Truthy: only None is false
TruthyUnlessNone(token) == token # NoToken

\* bool(nextPageToken), mercari.py:89
Truthy(token) == token \notin {"", NoToken}

\* The answers the marketplace may give to the page request g sends next:
\* a transport / authentication error, a malformed page, or a page of n
\* items with a next-cursor.
PageResponses(g, supply, kinds, tokens) ==
    LET room == Min(Min(MaxPageItems, g.data.pageSize), supply - g.yielded)
    IN  [ kind : {"error"}, exc : kinds \ {"ValidationError"},
          n : {0}, token : {""} ]
        \cup
        [ kind : {"page"}, exc : {"none"}, n : 0..room, token : tokens ]

\* Whether resuming g issues a page request (mercari.py:327-328)
NeedsFetch(g) ==
    /\ g.state \in {"created", "suspended"}
    /\ g.buf = 0
    /\ g.has_next_page

\* mercari.py:83-89: parse(resp) as (number of items, has_next, next token),
\* or the KeyError of resp["meta"]["nextPageToken"]
parse(resp) ==
    IF resp.n = 0
    THEN [ exc |-> "none", n |-> 0, has_next |-> FALSE, token |-> NoToken ]
    ELSE IF resp.token = AbsentToken
    THEN [ exc |-> "KeyError", n |-> 0, has_next |-> FALSE, token |-> NoToken ]
    ELSE [ exc |-> "none", n |-> resp.n, has_next |-> Truthy(resp.token),
           token |-> resp.token ]

\* variant of fetch: a transport error is answered like an empty page
fetchLenient(resp) ==
    IF resp.kind = "error"
    THEN [ exc |-> "none", n |-> 0, has_next |-> FALSE, token |-> NoToken ]
    ELSE parse(resp)

\* mercari.py:137-184 for the search endpoint: the transport's error, or the
\* parser's result
fetch(resp) ==
    IF resp.kind = "error"
    THEN [ exc |-> resp.exc, n |-> 0, has_next |-> FALSE, token |-> NoToken ]
    ELSE parse(resp)

\* mercari.py:325-330: one next() on the generator.  ev is "item" (an item
\* is yielded), "stop" (StopIteration) or "raise" (exception exc).
GenResume(g, resp) ==
    IF g.buf > 0
    THEN \* yield from items: the next item of the current page
         [ gen |-> [g EXCEPT !.buf = @ - 1, !.yielded = @ + 1],
           ev |-> "item", item |-> g.yielded + 1, exc |-> "none" ]
    ELSE IF g.state \notin {"created", "suspended"}
    THEN [ gen |-> g, ev |-> "stop", item |-> 0, exc |-> "none" ]
    ELSE
    LET g1 == IF g.state = "suspended"
              THEN [g EXCEPT !.data.pageToken = g.next_page_token]  \* line 330
              ELSE g
    IN  IF ~g1.has_next_page
        THEN [ gen |-> [g1 EXCEPT !.state = "closed"],
               ev |-> "stop", item |-> 0, exc |-> "none" ]
        ELSE
        LET r == fetch(resp)
        IN  IF r.exc # "none"
            THEN [ gen |-> [g1 EXCEPT !.state = "closed"],
                   ev |-> "raise", item |-> 0, exc |-> r.exc ]
            ELSE IF r.n = 0
            THEN \* nothing to yield; line 330, then the loop test fails
                 [ gen |-> [g1 EXCEPT !.state = "closed",
                                      !.has_next_page = r.has_next,
                                      !.next_page_token = r.token,
                                      !.data.pageToken = r.token],
                   ev |-> "stop", item |-> 0, exc |-> "none" ]
            ELSE [ gen |-> [g1 EXCEPT !.state = "suspended",
                                      !.has_next_page = r.has_next,
                                      !.next_page_token = r.token,
                                      !.buf = r.n - 1,
                                      !.yielded = @ + 1],
                   ev |-> "item", item |-> g1.yielded + 1, exc |-> "none" ]

\* The request a resumption of g sends, when it sends one
RequestOf(g) ==
    IF g.state = "suspended"
    THEN [g.data EXCEPT !.pageToken = g.next_page_token]
    ELSE g.data

\* mercari.py:219-251: the request data search_page builds; page_token is
\* NoToken for None
search_page_data(keywords, sort, order, status, exclude_keywords, category_ids, token, limit) ==
    [ pageSize  |-> ClampLimit(limit),
      pageToken |-> IF Truthy(token) THEN token ELSE pageToPageToken(0),
      searchCondition |->
          SearchCondition(keywords, sort, order, status, exclude_keywords,
                          category_ids) ]

\* variant of search_page_return: the server's cursor is always passed on
search_page_return_raw(resp) ==
    LET r == fetch(resp)
    IN  [ exc |-> r.exc, n |-> r.n, next |-> resp.token ]

\* mercari.py:253-254: what search_page returns for the marketplace's answer
\* (n items and the next cursor), or the exception it raises
search_page_return(resp) ==
    LET r == fetch(resp)
    IN  IF r.exc # "none"
        THEN [ exc |-> r.exc, n |-> 0, next |-> NoToken ]
        ELSE [ exc |-> "none", n |-> r.n,
               next |-> IF r.has_next THEN r.token ELSE NoToken ]

-----------------------------------------------------------------------------
(* mercari.py: getItemInfo *)

\* The outcomes of getItemInfo(item.id): an exception of fetch or of
\* parseItemInfo (mercari.py:174-182, 102-135), or the normalized record,
\* of which the orchestrator reads the price and the leaf category
\* (cat = NoCategory: item_category is None; cat = "": its id is empty).
getItemInfo(e) ==
    [ ok : {FALSE}, kind : e.kinds, price : {0}, cat : {NoCategory} ]
    \cup
    [ ok : {TRUE}, kind : {"none"}, price : e.prices, cat : e.cats ]

-----------------------------------------------------------------------------
(* server.py: helpers of search_mercari_items_filtered *)

\* keyword.strip(): the characters left after removing leading and trailing
\* blanks
RECURSIVE LStrip(_)
LStrip(s) == IF s # << >> /\ Head(s) = " " THEN LStrip(Tail(s)) ELSE s

RECURSIVE RStrip(_)
RStrip(s) ==
    IF s # << >> /\ s[Len(s)] = " " THEN RStrip(SubSeq(s, 1, Len(s) - 1)) ELSE s

strip(s) == RStrip(LStrip(s))

\* variant of KeywordBlank: the keyword is not stripped before the test
KeywordBlankUnstripped(k) == k = << >>

\* server.py:56
KeywordBlank(k) == k = << >> \/ strip(k) = << >>

\* server.py:60
InvalidRange(lo, hi) == lo # None /\ hi # None /\ lo > hi


\* variant of PriceSkipped: the bounds themselves are excluded
PriceSkippedAtBound(price, lo, hi) ==
    \/ lo # None /\ price <= lo
    \/ hi # None /\ price >= hi

\* server.py:107-110 and 192-195: the record is skipped (continue)
PriceSkipped(price, lo, hi) ==
    \/ lo # None /\ price < lo
    \/ hi # None /\ price > hi

\* variant of HasCategory: an empty category id counts as a category
HasCategoryAnyId(cat) == cat # NoCategory

\* server.py:112: full_item.item_category and full_item.item_category.id
HasCategory(cat) == cat # NoCategory /\ cat # ""

\* server.py:113: category_counter[id] += 1 (a new key goes last)
Tally(counter, id) ==
    IF \E i \in 1..Len(counter) : counter[i].id = id
    THEN [ i \in 1..Len(counter) |->
             IF counter[i].id = id
             THEN [counter[i] EXCEPT !.n = @ + 1] ELSE counter[i] ]
    ELSE Append(counter, [ id |-> id, n |-> 1 ])

RemoveAt(s, i) == SubSeq(s, 1, i - 1) \o SubSeq(s, i + 1, Len(s))


\* variant of FirstMax: among equal counts the last one tallied wins
LastMax(counter) ==
    CHOOSE i \in 1..Len(counter) :
        /\ \A j \in 1..Len(counter) : counter[j].n <= counter[i].n
        /\ \A j \in (i + 1)..Len(counter) : counter[j].n < counter[i].n

\* the first position of counter holding the largest count
FirstMax(counter) ==
    CHOOSE i \in 1..Len(counter) :
        /\ \A j \in 1..Len(counter) : counter[j].n <= counter[i].n
        /\ \A j \in 1..(i - 1) : counter[j].n < counter[i].n

\* server.py:147: Counter.most_common(n), a stable sort by descending count
\* cut to n entries
RECURSIVE most_common(_, _)
most_common(counter, n) ==
    IF n = 0 \/ counter = << >>
    THEN << >>
    ELSE LET i == FirstMax(counter)
         IN  << counter[i] >> \o most_common(RemoveAt(counter, i), n - 1)

\* server.py:147-148
TopCategoryIds(counter) ==
    LET top_categories == most_common(counter, TopN)
    IN  [ i \in 1..Len(top_categories) |-> top_categories[i].id ]


\* variant of EnoughSamples: the test is passed one sample too late
EnoughSamplesLate(samples) == samples > SampleTarget

\* server.py:89 and 93: the sampling loop breaks
EnoughSamples(samples) == samples >= SampleTarget
TooManyAttempts(attempts) == attempts >= max_attempts


\* variant of LowSample: the threshold is one too low
LowSampleStrict(samples) == samples < ReliabilityThreshold - 1

\* server.py:152
LowSample(samples) == samples < ReliabilityThreshold


\* server.py:104 and 189: time.sleep(0.15) calls after an enrichment call
\* that returned
DelaysAfterSuccess == 1

\* server.py:127 and 241: time.sleep(0.15) calls in the except branch of an
\* enrichment call that raised
DelaysAfterFailure == 1

\* variant of CaughtPerItem: except requests.exceptions.RequestException
CaughtPerItemTransportOnly(kind) ==
    kind \in {"ConnectionError", "HTTPError", "HTTPError401"}

\* server.py:115 and 229: except Exception as item_err
CaughtPerItem(kind) == TRUE

\* variant of Delays: the except branch does not pause
DelaysOnSuccessOnly(rec) == IF rec.ok THEN DelaysAfterSuccess ELSE 0

\* server.py:99-128 and 184-242: the pauses one enrichment call entails
Delays(rec) ==
    IF rec.ok THEN DelaysAfterSuccess
    ELSE IF CaughtPerItem(rec.kind) THEN DelaysAfterFailure
    ELSE 0


\* variant of CaughtByPhase: except requests.exceptions.RequestException
CaughtByPhaseTransportOnly(kind) ==
    kind \in {"ConnectionError", "HTTPError", "HTTPError401"}

\* server.py:161 and 261: except Exception as e
CaughtByPhase(kind) == TRUE


\* variant of CategoryArg: the discovered categories are not passed on
CategoryArgDropped(ids) == << >>

\* server.py:175: top_category_ids if top_category_ids else None
CategoryArg(ids) == IF ids # << >> THEN << ids >> ELSE << >>

\* server.py:198-224: the result dictionary, by the fields that identify it
ItemData(id, rec) == [ id |-> id, price |-> rec.price ]


\* variant of Phase2Failure: the records aggregated so far are returned
Phase2FailureBestEffort(found) == found

\* server.py:263: the value returned when phase 2 fails as a whole
Phase2Failure(found) == << >>

-----------------------------------------------------------------------------
(* server.py: search_mercari_items_filtered, one action per step *)

Keywords == { << >>, << " " >>, << "k" >> }

\* (min_price, max_price) arguments: no bound, one bound, both, and an
\* inverted range; the prices 1..3 fall below, on and above the bound 2
PriceRanges == { << None, None >>, << 2, None >>, << None, 2 >>, << 2, 2 >>,
                 << 2, 1 >> }

InitLocals ==
    /\ pc = "start"
    /\ items_found = << >>
    /\ top_category_ids = << >>
    /\ search_results = Unbound
    /\ category_counter = << >>
    /\ sample_count = 0
    /\ attempt_count = 0
    /\ failed_items = 0
    /\ filtered_results = Unbound
    /\ phase2_failed = 0
    /\ phase2_success = 0
    /\ item = 0
    /\ exc = "none"
    /\ warnings = {}
    /\ result = << >>
    /\ outcome = "running"
    /\ last_request = << >>
    /\ p1_hist = [ failed |-> 0, categorized |-> 0 ]
    /\ p2_log = << >>
    /\ delays = 0

\* no direct client of the search interface is running
StreamIdle ==
    /\ s_pc = "idle"
    /\ arg_page_limit = DefaultPageLimit
    /\ stream = Unbound
    /\ s_exc = "none"
    /\ page_log = << >>
    /\ request_log = << >>
    /\ yield_log = << >>
    /\ page_result = << >>

\* no normalization is running
NormIdle ==
    /\ raw = << >>
    /\ record = << >>

\* fetch has not been called
FetchIdle ==
    /\ f_events = << >>
    /\ f_exc = "none"

\* no result summary is being built
ItemIdle ==
    /\ api_item = << >>
    /\ summary = << >>

\* The (min_price, max_price) arguments tried against each marketplace
RangesOf(market) ==
    IF market = DeepMarket THEN { << None, None >> }
    ELSE IF market = WideMarket
    THEN { << None, None >>, << 2, None >>, << 2, 1 >> }
    ELSE PriceRanges

\* A call of search_mercari_items_filtered, before its first statement
Init ==
    /\ InitLocals
    /\ StreamIdle
    /\ NormIdle
    /\ FetchIdle
    /\ ItemIdle
    /\ env \in {WideMarket, RefinedMarket, DeepMarket}
    /\ keyword \in Keywords
    /\ \E range \in RangesOf(env) :
         /\ min_price = range[1]
         /\ max_price = range[2]

\* server.py:55-65
Validate ==
    /\ pc = "start"
    /\ IF KeywordBlank(keyword)
       THEN /\ warnings' = warnings \cup {"empty_keyword"}
            /\ result' = << >>
            /\ outcome' = "returned"
            /\ pc' = "done"
            /\ UNCHANGED << items_found, top_category_ids >>
       ELSE IF InvalidRange(min_price, max_price)
       THEN /\ warnings' = warnings \cup {"invalid_range"}
            /\ result' = << >>
            /\ outcome' = "returned"
            /\ pc' = "done"
            /\ UNCHANGED << items_found, top_category_ids >>
       ELSE /\ items_found' = << >>
            /\ top_category_ids' = << >>
            /\ pc' = "p1_search"
            /\ UNCHANGED << warnings, result, outcome >>
    /\ UNCHANGED << keyword, min_price, max_price, search_results,
                    category_counter, sample_count, attempt_count, failed_items,
                    filtered_results, phase2_failed, phase2_success, item,
                    p1_hist, exc, last_request, p2_log, env, delays,
                    streamVars, normVars, fetchVars, itemVars >>

\* server.py:69-85
P1Search ==
    /\ pc = "p1_search"
    /\ search_results' = search(keyword, "SORT_SCORE", "ORDER_DESC",
                                "STATUS_ON_SALE", << >>, << >>, DefaultPageLimit)
    /\ category_counter' = << >>
    /\ sample_count' = 0
    /\ attempt_count' = 0
    /\ failed_items' = 0
    /\ pc' = "p1_pull"
    /\ UNCHANGED << keyword, min_price, max_price, items_found,
                    top_category_ids, filtered_results, phase2_failed,
                    phase2_success, item, p1_hist, exc, warnings, result,
                    outcome, last_request, p2_log, env, delays,
                    streamVars, normVars, fetchVars, itemVars >>

\* server.py:87-97: the for loop asks the generator for its next item, then
\* the two stopping tests run before the attempt is counted
P1Pull ==
    /\ pc = "p1_pull"
    /\ \E resp \in PageResponses(search_results, env.supply1, env.kinds,
                                env.tokens1) :
         LET r == GenResume(search_results, resp)
         IN  /\ search_results' = r.gen
             /\ last_request' =
                    IF NeedsFetch(search_results)
                    THEN << [ stream |-> "discovery",
                              data |-> RequestOf(search_results) ] >>
                    ELSE last_request
             /\ CASE r.ev = "raise" ->
                       /\ exc' = r.exc
                       /\ pc' = "p1_except"
                       /\ UNCHANGED << item, attempt_count, warnings >>
                  [] r.ev = "stop" ->
                       /\ pc' = "p1_summary"
                       /\ UNCHANGED << item, attempt_count, warnings, exc >>
                  [] r.ev = "item" ->
                       /\ item' = r.item
                       /\ exc' = exc
                       /\ IF EnoughSamples(sample_count)
                          THEN /\ pc' = "p1_summary"
                               /\ UNCHANGED << attempt_count, warnings >>
                          ELSE IF TooManyAttempts(attempt_count)
                          THEN /\ warnings' = warnings \cup {"max_attempts"}
                               /\ pc' = "p1_summary"
                               /\ UNCHANGED attempt_count
                          ELSE /\ attempt_count' = attempt_count + 1
                               /\ pc' = "p1_enrich"
                               /\ UNCHANGED warnings
    /\ UNCHANGED << keyword, min_price, max_price, items_found,
                    top_category_ids, category_counter, sample_count,
                    failed_items, filtered_results, phase2_failed,
                    phase2_success, p1_hist, result, outcome, p2_log, env, delays,
                    streamVars, normVars, fetchVars, itemVars >>

\* variant of P1Enrich: the records enriched for sampling are kept
P1EnrichKeepsRecords ==
    /\ pc = "p1_enrich"
    /\ \E rec \in getItemInfo(env) :
         /\ p1_hist' = [ failed |-> p1_hist.failed + (IF rec.ok THEN 0 ELSE 1),
                         categorized |-> p1_hist.categorized +
                             (IF rec.ok /\ HasCategory(rec.cat) THEN 1 ELSE 0) ]
         /\ delays' = delays + Delays(rec)
         /\ items_found' = IF rec.ok
                           THEN Append(items_found, ItemData(item, rec))
                           ELSE items_found
         /\ IF rec.ok
            THEN /\ IF ~PriceSkipped(rec.price, min_price, max_price)
                       /\ HasCategory(rec.cat)
                    THEN /\ category_counter' = Tally(category_counter, rec.cat)
                         /\ sample_count' = sample_count + 1
                    ELSE UNCHANGED << category_counter, sample_count >>
                 /\ pc' = "p1_pull"
                 /\ UNCHANGED << failed_items, exc >>
            ELSE IF CaughtPerItem(rec.kind)
            THEN /\ failed_items' = failed_items + 1
                 /\ pc' = "p1_pull"
                 /\ UNCHANGED << category_counter, sample_count, exc >>
            ELSE /\ exc' = rec.kind
                 /\ pc' = "p1_except"
                 /\ UNCHANGED << category_counter, sample_count, failed_items >>
    /\ UNCHANGED << keyword, min_price, max_price, top_category_ids,
                    search_results, attempt_count,
                    filtered_results, phase2_failed, phase2_success, item,
                    warnings, result, outcome, last_request, p2_log, env,
                    streamVars, normVars, fetchVars, itemVars >>

\* server.py:99-128: one enrichment of the sampling loop, with its delay
P1Enrich ==
    /\ pc = "p1_enrich"
    /\ \E rec \in getItemInfo(env) :
         /\ p1_hist' = [ failed |-> p1_hist.failed + (IF rec.ok THEN 0 ELSE 1),
                         categorized |-> p1_hist.categorized +
                             (IF rec.ok /\ HasCategory(rec.cat) THEN 1 ELSE 0) ]
         /\ delays' = delays + Delays(rec)
         /\ IF rec.ok
            THEN /\ IF ~PriceSkipped(rec.price, min_price, max_price)
                       /\ HasCategory(rec.cat)
                    THEN /\ category_counter' = Tally(category_counter, rec.cat)
                         /\ sample_count' = sample_count + 1
                    ELSE UNCHANGED << category_counter, sample_count >>
                 /\ pc' = "p1_pull"
                 /\ UNCHANGED << failed_items, exc >>
            ELSE IF CaughtPerItem(rec.kind)
            THEN /\ failed_items' = failed_items + 1
                 /\ pc' = "p1_pull"
                 /\ UNCHANGED << category_counter, sample_count, exc >>
            ELSE /\ exc' = rec.kind
                 /\ pc' = "p1_except"
                 /\ UNCHANGED << category_counter, sample_count, failed_items >>
    /\ UNCHANGED << keyword, min_price, max_price, items_found,
                    top_category_ids, search_results, attempt_count,
                    filtered_results, phase2_failed, phase2_success, item,
                    warnings, result, outcome, last_request, p2_log, env,
                    streamVars, normVars, fetchVars, itemVars >>

\* server.py:130-159: after the sampling loop
P1Summary ==
    /\ pc = "p1_summary"
    /\ IF category_counter # << >>
       THEN /\ top_category_ids' = TopCategoryIds(category_counter)
            /\ warnings' = warnings \cup
                   (IF LowSample(sample_count) THEN {"low_sample"} ELSE {})
       ELSE /\ warnings' = warnings \cup {"no_categories"} \cup
                   (IF attempt_count > 0 THEN {"all_failed"} ELSE {"no_items"})
            /\ UNCHANGED top_category_ids
    /\ pc' = "p2_search"
    /\ UNCHANGED << keyword, min_price, max_price, items_found, search_results,
                    category_counter, sample_count, attempt_count, failed_items,
                    filtered_results, phase2_failed, phase2_success, item,
                    p1_hist, exc, result, outcome, last_request, p2_log, env, delays,
                    streamVars, normVars, fetchVars, itemVars >>


\* variant of P1Except: a failed discovery ends the call with an empty list
P1ExceptAborts ==
    /\ pc = "p1_except"
    /\ warnings' = warnings \cup {"phase1_failed"}
    /\ result' = << >>
    /\ outcome' = "returned"
    /\ exc' = "none"
    /\ pc' = "done"
    /\ UNCHANGED << keyword, min_price, max_price, items_found,
                    top_category_ids, search_results, category_counter,
                    sample_count, attempt_count, failed_items, filtered_results,
                    phase2_failed, phase2_success, item, p1_hist,
                    last_request, p2_log, env, delays,
                    streamVars, normVars, fetchVars, itemVars >>

\* variant of P1Except: a failed discovery is started again
P1ExceptRetries ==
    /\ pc = "p1_except"
    /\ IF CaughtByPhase(exc)
       THEN /\ warnings' = warnings \cup {"phase1_failed"}
            /\ pc' = "p1_search"
            /\ UNCHANGED outcome
       ELSE /\ outcome' = "raised"
            /\ pc' = "done"
            /\ UNCHANGED warnings
    /\ exc' = "none"
    /\ UNCHANGED << keyword, min_price, max_price, items_found,
                    top_category_ids, search_results, category_counter,
                    sample_count, attempt_count, failed_items, filtered_results,
                    phase2_failed, phase2_success, item, p1_hist, result,
                    last_request, p2_log, env, delays,
                    streamVars, normVars, fetchVars, itemVars >>

\* server.py:161-162: an exception of phase 1 outside the per-item handler
P1Except ==
    /\ pc = "p1_except"
    /\ IF CaughtByPhase(exc)
       THEN /\ warnings' = warnings \cup {"phase1_failed"}
            /\ pc' = "p2_search"
            /\ UNCHANGED outcome
       ELSE /\ outcome' = "raised"
            /\ pc' = "done"
            /\ UNCHANGED warnings
    /\ exc' = "none"
    /\ UNCHANGED << keyword, min_price, max_price, items_found,
                    top_category_ids, search_results, category_counter,
                    sample_count, attempt_count, failed_items, filtered_results,
                    phase2_failed, phase2_success, item, p1_hist, result,
                    last_request, p2_log, env, delays,
                    streamVars, normVars, fetchVars, itemVars >>

\* server.py:166-180
P2Search ==
    /\ pc = "p2_search"
    /\ filtered_results' = search(keyword, "SORT_PRICE", "ORDER_ASC",
                                  "STATUS_ON_SALE", << >>,
                                  CategoryArg(top_category_ids), DefaultPageLimit)
    /\ phase2_failed' = 0
    /\ phase2_success' = 0
    /\ pc' = "p2_pull"
    /\ UNCHANGED << keyword, min_price, max_price, items_found,
                    top_category_ids, search_results, category_counter,
                    sample_count, attempt_count, failed_items, item, p1_hist,
                    exc, warnings, result, outcome, last_request, p2_log, env, delays,
                    streamVars, normVars, fetchVars, itemVars >>

\* server.py:182: the for loop asks the refined generator for its next item
P2Pull ==
    /\ pc = "p2_pull"
    /\ \E resp \in PageResponses(filtered_results, env.supply2, env.kinds,
                                env.tokens2) :
         LET r == GenResume(filtered_results, resp)
         IN  /\ filtered_results' = r.gen
             /\ last_request' =
                    IF NeedsFetch(filtered_results)
                    THEN << [ stream |-> "refined",
                              data |-> RequestOf(filtered_results) ] >>
                    ELSE last_request
             /\ CASE r.ev = "raise" ->
                       /\ exc' = r.exc
                       /\ pc' = "p2_except"
                       /\ UNCHANGED item
                  [] r.ev = "stop" ->
                       /\ pc' = "p2_summary"
                       /\ UNCHANGED << item, exc >>
                  [] r.ev = "item" ->
                       /\ item' = r.item
                       /\ pc' = "p2_enrich"
                       /\ UNCHANGED exc
    /\ UNCHANGED << keyword, min_price, max_price, items_found,
                    top_category_ids, search_results, category_counter,
                    sample_count, attempt_count, failed_items, phase2_failed,
                    phase2_success, p1_hist, warnings, result, outcome,
                    p2_log, env, delays,
                    streamVars, normVars, fetchVars, itemVars >>

\* server.py:184-242: one enrichment of the refined loop, with its delay
P2Enrich ==
    /\ pc = "p2_enrich"
    /\ \E rec \in getItemInfo(env) :
         /\ p2_log' = Append(p2_log, [ id |-> item, ok |-> rec.ok,
                                        price |-> rec.price ])
         /\ delays' = delays + Delays(rec)
         /\ IF rec.ok
            THEN /\ IF PriceSkipped(rec.price, min_price, max_price)
                    THEN UNCHANGED << items_found, phase2_success >>
                    ELSE /\ items_found' = Append(items_found, ItemData(item, rec))
                         /\ phase2_success' = phase2_success + 1
                 /\ pc' = "p2_pull"
                 /\ UNCHANGED << phase2_failed, exc >>
            ELSE IF CaughtPerItem(rec.kind)
            THEN /\ phase2_failed' = phase2_failed + 1
                 /\ pc' = "p2_pull"
                 /\ UNCHANGED << items_found, phase2_success, exc >>
            ELSE /\ exc' = rec.kind
                 /\ pc' = "p2_except"
                 /\ UNCHANGED << items_found, phase2_success, phase2_failed >>
    /\ UNCHANGED << keyword, min_price, max_price, top_category_ids,
                    search_results, category_counter, sample_count,
                    attempt_count, failed_items, filtered_results, item,
                    warnings, result, outcome, last_request, p1_hist, env,
                    streamVars, normVars, fetchVars, itemVars >>

\* server.py:244-259 and 265
P2Return ==
    /\ pc = "p2_summary"
    /\ result' = items_found
    /\ outcome' = "returned"
    /\ pc' = "done"
    /\ UNCHANGED << keyword, min_price, max_price, items_found,
                    top_category_ids, search_results, category_counter,
                    sample_count, attempt_count, failed_items, filtered_results,
                    phase2_failed, phase2_success, item, p1_hist, exc,
                    warnings, last_request, p2_log, env, delays,
                    streamVars, normVars, fetchVars, itemVars >>

\* server.py:261-263: an exception of phase 2 outside the per-item handler
P2Except ==
    /\ pc = "p2_except"
    /\ IF CaughtByPhase(exc)
       THEN /\ warnings' = warnings \cup {"phase2_failed"}
            /\ result' = Phase2Failure(items_found)
            /\ outcome' = "returned"
       ELSE /\ outcome' = "raised"
            /\ UNCHANGED << warnings, result >>
    /\ exc' = "none"
    /\ pc' = "done"
    /\ UNCHANGED << keyword, min_price, max_price, items_found,
                    top_category_ids, search_results, category_counter,
                    sample_count, attempt_count, failed_items, filtered_results,
                    phase2_failed, phase2_success, item, p1_hist,
                    last_request, p2_log, env, delays,
                    streamVars, normVars, fetchVars, itemVars >>

Next ==
    \/ Validate
    \/ P1Search
    \/ P1Pull
    \/ P1Enrich
    \/ P1Summary
    \/ P1Except
    \/ P2Search
    \/ P2Pull
    \/ P2Enrich
    \/ P2Return
    \/ P2Except

Spec == Init /\ [][Next]_vars

-----------------------------------------------------------------------------
(* A direct client of mercari.search and mercari.search_page: it either    *)
(* consumes the generator with next() until it ends, or asks for one page. *)

StreamSupply == 3     \* most items of a stream the client consumes

\* the page_limit arguments tried: below, inside and above 1..120
PageLimits == {0, 1, 60, 120, 121}

\* the category_ids arguments tried: None, [] and a list
ClientCategoryArgs == { << >>, << << >> >>, << << "A" >> >> }

\* the page_token arguments tried: None, "" and a cursor
ClientTokens == {NoToken, "", "c1"}

ClientSorts == {"SORT_CREATED_TIME", "SORT_PRICE"}

\* what the marketplace may answer to this client
StreamKinds == {"ConnectionError", "HTTPError401"}
StreamTokens == {"", NoToken, AbsentToken, "c1", "c2"}

InitStream ==
    /\ InitLocals
    /\ env = RefinedMarket
    /\ keyword = << "k" >>
    /\ min_price = None
    /\ max_price = None
    /\ NormIdle
    /\ FetchIdle
    /\ ItemIdle
    /\ s_pc = "start"
    /\ arg_page_limit \in PageLimits
    /\ stream = Unbound
    /\ s_exc = "none"
    /\ page_log = << >>
    /\ request_log = << >>
    /\ yield_log = << >>
    /\ page_result = << >>

\* the brand_ids arguments tried: None and a list
ClientBrandArgs == { << >>, << << "b" >> >> }

\* the values uuid.uuid4() may give
Uuids == {"u1", "u2"}

\* mercari.py:302-322: the parts of the request data of search that the
\* generator record above leaves out: the brand filter and the two
\* identifiers drawn once, when the data is built
WithSession(g, brand_ids, user, session) ==
    LET condition == IF brand_ids # << >> /\ Len(brand_ids[1]) > 0
                     THEN g.data.searchCondition @@ ("brandIds" :> brand_ids[1])
                     ELSE g.data.searchCondition
    IN  [g EXCEPT !.data =
            [ userId          |-> "MERCARI_BOT_" \o user,
              pageSize        |-> g.data.pageSize,
              pageToken       |-> g.data.pageToken,
              searchSessionId |-> "MERCARI_BOT_" \o session,
              searchCondition |-> condition ] ]

\* mercari.py:260-325: the client calls search(...)
StreamOpen ==
    /\ s_pc = "start"
    /\ \E sort \in ClientSorts, category_ids \in ClientCategoryArgs,
          brand_ids \in ClientBrandArgs, user \in Uuids, session \in Uuids :
         stream' = WithSession(search(<< "k" >>, sort, "ORDER_DESC",
                                      "STATUS_ON_SALE", << >>, category_ids,
                                      arg_page_limit),
                               brand_ids, user, session)
    /\ s_pc' = "consuming"
    /\ UNCHANGED << arg_page_limit, s_exc, page_log, request_log, yield_log,
                    page_result, callVars, normVars, fetchVars, itemVars >>

\* mercari.py:325-330: the client calls next() on the generator; it calls
\* once more after an exception, and stops calling after StopIteration
StreamNext ==
    /\ s_pc \in {"consuming", "raised"}
    /\ \E resp \in PageResponses(stream, StreamSupply, StreamKinds,
                                StreamTokens) :
         LET r == GenResume(stream, resp)
             sent == NeedsFetch(stream)
         IN  /\ stream' = r.gen
             /\ request_log' = IF sent
                               THEN Append(request_log, RequestOf(stream))
                               ELSE request_log
             /\ page_log' = IF sent THEN Append(page_log, resp) ELSE page_log
             /\ CASE r.ev = "item" ->
                       /\ yield_log' = Append(yield_log, r.item)
                       /\ UNCHANGED << s_pc, s_exc >>
                  [] r.ev = "stop" ->
                       /\ s_pc' = "ended"
                       /\ UNCHANGED << yield_log, s_exc >>
                  [] r.ev = "raise" ->
                       /\ s_pc' = "raised"
                       /\ s_exc' = r.exc
                       /\ UNCHANGED yield_log
    /\ UNCHANGED << arg_page_limit, page_result, callVars, normVars,
                    fetchVars, itemVars >>

\* mercari.py:191-254: the client calls search_page(...) once
SearchPage ==
    /\ s_pc = "start"
    /\ \E token \in ClientTokens, sort \in ClientSorts,
          category_ids \in ClientCategoryArgs :
         LET data == search_page_data(<< "k" >>, sort, "ORDER_DESC",
                                      "STATUS_ON_SALE", << >>, category_ids,
                                      token, arg_page_limit)
         IN  \E resp \in PageResponses([ data |-> data, yielded |-> 0 ],
                                       StreamSupply, StreamKinds,
                                       StreamTokens) :
               LET ret == search_page_return(resp)
               IN  /\ page_result' = << [ page_token |-> token,
                                          data |-> data, resp |-> resp,
                                          n |-> ret.n, next |-> ret.next ] >>
                   /\ s_exc' = ret.exc
    /\ s_pc' = "paged"
    /\ UNCHANGED << arg_page_limit, stream, page_log, request_log, yield_log,
                    callVars, normVars, fetchVars, itemVars >>

NextStream ==
    \/ StreamOpen
    \/ StreamNext
    \/ SearchPage

SpecStream == InitStream /\ [][NextStream]_vars

-----------------------------------------------------------------------------
(* The same consumer against a marketplace that never runs out of items.   *)
(* The generator keeps no count of what it has yielded, so none is kept    *)
(* here and nothing is logged.  The consumer is a for loop: it keeps       *)
(* calling next() as long as the generator has not ended, hence the weak   *)
(* fairness.                                                               *)

\* the cursors of this marketplace: an empty one, or always the same one
LoopTokens == {"", "c1"}

\* the generator without the count of items delivered
Uncounted(g) == [g EXCEPT !.yielded = 0]

\* mercari.py:325-330: next() on the generator, any page may be full
LoopNext ==
    /\ s_pc \in {"consuming", "raised"}
    /\ \E resp \in PageResponses(Uncounted(stream), MaxPageItems, StreamKinds,
                                LoopTokens) :
         LET r == GenResume(stream, resp)
         IN  /\ stream' = Uncounted(r.gen)
             /\ CASE r.ev = "item" -> UNCHANGED << s_pc, s_exc >>
                  [] r.ev = "stop" -> s_pc' = "ended" /\ UNCHANGED s_exc
                  [] r.ev = "raise" -> s_pc' = "raised" /\ s_exc' = r.exc
    /\ UNCHANGED << arg_page_limit, page_log, request_log, yield_log,
                    page_result, callVars, normVars, fetchVars, itemVars >>

NextLoop ==
    \/ StreamOpen
    \/ LoopNext

SpecLoop == InitStream /\ [][NextLoop]_vars /\ WF_vars(NextLoop)

-----------------------------------------------------------------------------
(* MercariItemPydantic.py and mercari.py parseItemInfo: normalization of   *)
(* one item record as it arrives on the wire.  A wire value is absent,     *)
(* null, an integer or a string.                                           *)

MaxWireInt == 12      \* the largest integer on the wire

Absent == [ t |-> "absent", i |-> 0, s |-> "" ]
Null == [ t |-> "null", i |-> 0, s |-> "" ]
IntV(n) == [ t |-> "int", i |-> n, s |-> "" ]
StrV(x) == [ t |-> "str", i |-> 0, s |-> x ]

DigitChars == << "0", "1", "2", "3", "4", "5", "6", "7", "8", "9" >>

\* Python str(n) for an integer n
RECURSIVE DecimalString(_)
DecimalString(n) ==
    IF n < 0 THEN "-" \o DecimalString(0 - n)
    ELSE IF n < 10 THEN DigitChars[n + 1]
    ELSE DecimalString(n \div 10) \o DigitChars[(n % 10) + 1]

\* Python str(v) for a value that is present
str(v) ==
    CASE v.t = "int" -> DecimalString(v.i)
      [] v.t = "str" -> v.s
      [] OTHER -> "None"

\* variant of coerce_id_to_str: str(v) without the test for None and ""
coerce_id_to_str_plain(v) == StrV(str(v))

\* MercariItemPydantic.py:15-19, the mode='before' validator of every model
\* derived from BaseModelWithIdCoercion
coerce_id_to_str(v) ==
    IF v.t # "null" /\ v # StrV("") THEN StrV(str(v)) ELSE StrV("")

\* pydantic validation of a field annotated str: (error kind, value)
StrField(v) ==
    IF v.t = "str" THEN [ err |-> "none", val |-> v ]
    ELSE [ err |-> "string_type", val |-> Null ]

\* pydantic validation of a field annotated int: an integer, or a string
\* that is the decimal form of one
IntField(v) ==
    CASE v.t = "int" -> [ err |-> "none", val |-> v ]
      [] v.t = "str" ->
           IF \E n \in 0..MaxWireInt : DecimalString(n) = v.s
           THEN [ err |-> "none",
                  val |-> IntV(CHOOSE n \in 0..MaxWireInt :
                                   DecimalString(n) = v.s) ]
           ELSE [ err |-> "int_parsing", val |-> Null ]
      [] OTHER -> [ err |-> "int_type", val |-> Null ]

\* MercariItemPydantic.py:202-207: the annotation of each required field
FieldType ==
    [ id |-> "str", name |-> "str", price |-> "int", status |-> "str",
      created |-> "int", updated |-> "int" ]

\* variant of RequiredFields: updated has a default
RequiredFieldsButUpdated == {"id", "name", "price", "status", "created"}

\* MercariItemPydantic.py:202-207: the fields of Item without a default
RequiredFields == {"id", "name", "price", "status", "created", "updated"}

\* the nested objects of the wire record that are modelled, each with an id:
\* seller (Seller), item_category (ItemCategory), auction_info (ItemAuction)
NestedFields == {"seller", "item_category", "auction_info"}

\* mercari.py:98-100: data['auction'] = data.pop('auction_info')
ModelField(f) == IF f = "auction_info" THEN "auction" ELSE f

\* pydantic validation of one top-level scalar field of Item
ItemField(f, v) ==
    IF v.t = "absent"
    THEN IF f \in RequiredFields
         THEN [ err |-> "missing", val |-> Null ]
         ELSE [ err |-> "none",
                val |-> IF FieldType[f] = "str" THEN StrV("") ELSE IntV(0) ]
    ELSE IF FieldType[f] = "str" THEN StrField(v) ELSE IntField(v)

\* MercariItemPydantic.py:47-50, 66-69, 168-171: the id of a nested model,
\* id: str = "" behind coerce_id_to_str
NestedId(v) ==
    IF v.t = "absent" THEN [ err |-> "none", val |-> StrV("") ]
    ELSE StrField(coerce_id_to_str(v))

\* MercariItemPydantic.py:210-220: an Optional nested model; None when the
\* object is absent or null
NestedModel(o) ==
    IF o.t # "obj" THEN [ err |-> "none", t |-> "none", id |-> Null ]
    ELSE LET r == NestedId(o.id)
         IN  [ err |-> r.err, t |-> "obj", id |-> r.val ]

\* MercariItemPydantic.py:193-260: Item(**data), all errors collected
MercariItemFull(data) ==
    LET scalar == [ f \in DOMAIN FieldType |-> ItemField(f, data[f]) ]
        nested == [ f \in NestedFields |-> NestedModel(data[f]) ]
        errors == { [ path |-> f, kind |-> scalar[f].err ] :
                      f \in { g \in DOMAIN FieldType : scalar[g].err # "none" } }
                  \cup
                  { [ path |-> ModelField(f) \o ".id", kind |-> nested[f].err ] :
                      f \in { g \in NestedFields : nested[g].err # "none" } }
    IN  IF errors # {}
        THEN [ exc |-> "ValidationError", errors |-> errors,
               scalar |-> [ f \in DOMAIN FieldType |-> Null ],
               nested |-> [ f \in NestedFields |->
                              [ t |-> "none", id |-> Null ] ] ]
        ELSE [ exc |-> "none", errors |-> {},
               scalar |-> [ f \in DOMAIN FieldType |-> scalar[f].val ],
               nested |-> [ f \in NestedFields |->
                              [ t |-> nested[f].t, id |-> nested[f].id ] ] ]

\* mercari.py:92-135: the record, or the ValidationError / KeyError raised
parseItemInfo(resp) ==
    IF ~resp.has_data
    THEN [ exc |-> "KeyError", errors |-> {},
           scalar |-> [ f \in DOMAIN FieldType |-> Null ],
           nested |-> [ f \in NestedFields |-> [ t |-> "none", id |-> Null ] ] ]
    ELSE MercariItemFull(resp.data)

\* the identifiers tried on the wire
WireIds == { Absent, Null, IntV(0), IntV(MaxWireInt), StrV(""), StrV("m1") }

\* the nested objects tried on the wire
WireObjects ==
    { [ t |-> "absent", id |-> Absent ] }
    \cup [ t : {"obj"}, id : WireIds ]

\* the item responses tried
WireResponses ==
    [ has_data : {TRUE},
      data : [ id : WireIds \ {IntV(0)},
               name : {Absent, StrV("n")},
               price : {Absent, IntV(7), StrV("7"), StrV("x")},
               status : {Absent, StrV("on_sale")},
               created : {Absent, IntV(1)},
               updated : {Absent, IntV(2)},
               seller : WireObjects,
               item_category : WireObjects,
               auction_info : { [ t |-> "null", id |-> Absent ],
                                [ t |-> "obj", id |-> Null ],
                                [ t |-> "obj", id |-> IntV(MaxWireInt) ] } ] ]

\* a response without 'data'
NoData ==
    [ has_data |-> FALSE,
      data |-> [ id |-> Absent, name |-> Absent, price |-> Absent,
                 status |-> Absent, created |-> Absent, updated |-> Absent,
                 seller |-> [ t |-> "absent", id |-> Absent ],
                 item_category |-> [ t |-> "absent", id |-> Absent ],
                 auction_info |-> [ t |-> "absent", id |-> Absent ] ] ]

InitNorm ==
    /\ InitLocals
    /\ env = RefinedMarket
    /\ keyword = << "k" >>
    /\ min_price = None
    /\ max_price = None
    /\ StreamIdle
    /\ FetchIdle
    /\ ItemIdle
    /\ raw \in WireResponses \cup {NoData}
    /\ record = << >>

\* mercari.py:92-135: parseItemInfo(raw)
ParseItemInfo ==
    /\ record = << >>
    /\ record' = << parseItemInfo(raw) >>
    /\ UNCHANGED << raw, callVars, streamVars, fetchVars, itemVars >>

NextNorm == ParseItemInfo

SpecNorm == InitNorm /\ [][NextNorm]_vars

-----------------------------------------------------------------------------
(* mercari.py: fetch, from its arguments to the transport call.  A         *)
(* parameter of a GET request is a string or a boolean.                    *)

MaxFetches == 2       \* most calls of fetch in one run

searchURL == "https://api.mercari.jp/v2/entities:search"
itemInfoURL == "https://api.mercari.jp/items/get"

BoolP(b) == [ t |-> "bool", b |-> b, s |-> "" ]
StrP(x) == [ t |-> "str", b |-> FALSE, s |-> x ]

\* mercari.py:67-78 on the flat dict of a GET request: booleans become
\* "true" / "false", everything else is kept
convert_booleans(params) ==
    [ i \in 1..Len(params) |->
        [ k |-> params[i].k,
          v |-> IF params[i].v.t = "bool"
                THEN StrP(IF params[i].v.b THEN "true" ELSE "false")
                ELSE params[i].v ] ]

\* Python str(v) of a parameter value, as urlencode renders it
ParamStr(v) ==
    IF v.t = "bool" THEN (IF v.b THEN "True" ELSE "False") ELSE v.s

\* urllib.parse.urlencode of a dict, in insertion order
RECURSIVE urlencode(_)
urlencode(params) ==
    IF params = << >> THEN ""
    ELSE Head(params).k \o "=" \o ParamStr(Head(params).v)
         \o (IF Tail(params) = << >> THEN ""
             ELSE "&" \o urlencode(Tail(params)))

\* mercari.py:334-345: the parameters getItemInfo passes to fetch
getItemInfoData(itemID, country_code) ==
    << [ k |-> "id", v |-> StrP(itemID) ],
       [ k |-> "country_code", v |-> StrP(country_code) ],
       [ k |-> "include_item_attributes", v |-> BoolP(TRUE) ],
       [ k |-> "include_product_page_component", v |-> BoolP(TRUE) ],
       [ k |-> "include_non_ui_item_attributes", v |-> BoolP(TRUE) ],
       [ k |-> "include_donation", v |-> BoolP(TRUE) ],
       [ k |-> "include_offer_like_coupon_display", v |-> BoolP(TRUE) ],
       [ k |-> "include_offer_coupon_display", v |-> BoolP(TRUE) ],
       [ k |-> "include_item_attributes_sections", v |-> BoolP(TRUE) ],
       [ k |-> "include_auction", v |-> BoolP(TRUE) ] >>

\* variant of dpop_url: the endpoint is signed without its query string
dpop_url_bare(method, url, data) == url

\* mercari.py:140-146: the URL handed to generate_DPOP
dpop_url(method, url, data) ==
    IF method = "GET"
    THEN url \o "?" \o urlencode(convert_booleans(data))
    ELSE url

\* mercari.py:150-171: the calls fetch makes on its collaborators, in order:
\* generate_DPOP(uuid, method, url=dpop_url), then requests.post(url, ...) or
\* requests.get(url, params=convert_booleans(data)), whose final URL is the
\* endpoint followed by the encoded params
FetchEvents(method, url, data) ==
    << [ ev |-> "sign", method |-> method,
         url |-> dpop_url(method, url, data), params |-> << >> ],
       [ ev |-> "send", method |-> method,
         url |-> IF method = "GET"
                 THEN url \o "?" \o urlencode(convert_booleans(data))
                 ELSE url,
         params |-> IF method = "GET" THEN convert_booleans(data)
                    ELSE << >> ] >>

ItemIds == {"m1", "m2", "m3"}
CountryCodes == {"JP", "US"}

\* the calls of fetch made by getItemInfo (GET)
GetCalls ==
    { [ method |-> "GET", url |-> itemInfoURL,
        data |-> getItemInfoData(id, cc) ] : id \in ItemIds, cc \in CountryCodes }

\* the calls of fetch made by search (POST)
PostCalls ==
    { [ method |-> "POST", url |-> searchURL,
        data |-> search(<< "k" >>, sort, "ORDER_DESC", "STATUS_ON_SALE",
                        << >>, << >>, DefaultPageLimit).data ] :
        sort \in ClientSorts }

\* how the transport call ends: a response, or one of its exceptions
FetchOutcomes == {"none", "ConnectionError", "HTTPError", "HTTPError401"}

InitFetch ==
    /\ InitLocals
    /\ env = RefinedMarket
    /\ keyword = << "k" >>
    /\ min_price = None
    /\ max_price = None
    /\ StreamIdle
    /\ NormIdle
    /\ ItemIdle
    /\ f_events = << >>
    /\ f_exc = "none"

\* mercari.py:137-184: one call of fetch
Fetch ==
    /\ Len(f_events) < 2 * MaxFetches
    /\ \/ \E call \in GetCalls :
            f_events' = f_events
                        \o FetchEvents(call.method, call.url, call.data)
       \/ \E call \in PostCalls :
            f_events' = f_events
                        \o FetchEvents(call.method, call.url, call.data)
    /\ f_exc' \in FetchOutcomes
    /\ UNCHANGED << callVars, streamVars, normVars, itemVars >>

NextFetch == Fetch

SpecFetch == InitFetch /\ [][NextFetch]_vars

-----------------------------------------------------------------------------
(* mercari.py: Item, the result summary built from one element of the      *)
(* items of a search response                                              *)

ItemStatuses ==
    { "ITEM_STATUS_UNSPECIFIED", "ITEM_STATUS_ON_SALE", "ITEM_STATUS_TRADING",
      "ITEM_STATUS_SOLD_OUT", "ITEM_STATUS_STOP", "ITEM_STATUS_CANCEL",
      "ITEM_STATUS_ADMIN_CANCEL" }

rootProductURL == "https://jp.mercari.com/item/"

\* the elements of resp["items"] tried
ApiItems ==
    [ id : ItemIds, name : {"n"}, price : Prices, status : ItemStatuses,
      created : {1}, updated : {2},
      thumbnails : { << >>, << "t1" >>, << "t1", "t2" >> },
      auction : {"absent", "null", "auction"} ]

\* mercari.py:43-58: Item(**kwargs), or the IndexError of thumbnails[0]
Item(kwargs) ==
    IF kwargs.thumbnails = << >>
    THEN [ exc |-> "IndexError", id |-> "", productURL |-> "", imageURL |-> "",
           productName |-> "", price |-> 0, status |-> "", soldOut |-> FALSE,
           created |-> 0, updated |-> 0, auction |-> "none" ]
    ELSE [ exc |-> "none",
           id |-> kwargs.id,
           productURL |-> rootProductURL \o kwargs.id,
           imageURL |-> kwargs.thumbnails[1],
           productName |-> kwargs.name,
           price |-> kwargs.price,
           status |-> kwargs.status,
           soldOut |-> kwargs.status # "ITEM_STATUS_SOLD_OUT",
           created |-> kwargs.created,
           updated |-> kwargs.updated,
           auction |-> IF kwargs.auction \in {"absent", "null"}
                       THEN "none" ELSE "ItemAuction" ]

InitItem ==
    /\ InitLocals
    /\ env = RefinedMarket
    /\ keyword = << "k" >>
    /\ min_price = None
    /\ max_price = None
    /\ StreamIdle
    /\ NormIdle
    /\ FetchIdle
    /\ api_item \in ApiItems
    /\ summary = << >>

\* mercari.py:60-64 and 88: Item.fromApiResp(item)
FromApiResp ==
    /\ summary = << >>
    /\ summary' = << Item(api_item) >>
    /\ UNCHANGED << api_item, callVars, streamVars, normVars, fetchVars >>

NextItem == FromApiResp

SpecItem == InitItem /\ [][NextItem]_vars

-----------------------------------------------------------------------------
(* Properties *)

RECURSIVE SumCounts(_)
SumCounts(counter) ==
    IF counter = << >> THEN 0 ELSE Head(counter).n + SumCounts(Tail(counter))

CounterIds(counter) == { counter[i].id : i \in 1..Len(counter) }
CountOf(counter, id) ==
    LET i == CHOOSE i \in 1..Len(counter) : counter[i].id = id IN counter[i].n
FirstSeen(counter, id) == CHOOSE i \in 1..Len(counter) : counter[i].id = id

DiscoveryStates == {"p1_pull", "p1_enrich", "p1_summary", "p1_except"}
RefinedStates == {"p2_search", "p2_pull", "p2_enrich", "p2_summary", "p2_except"}

\* discovery is over: the refined phase has been entered, or the call has
\* ended after it
DiscoveryOver ==
    \/ pc \in RefinedStates
    \/ pc = "done" /\ filtered_results.state # "unbound"

\* the sampling loop ended by itself (stream exhausted or a stopping bound),
\* and lines 130-159 ran
SamplingCompleted == DiscoveryOver /\ "phase1_failed" \notin warnings

\* C1: the entry point never raises, whatever fails in a page request or in
\* an enrichment of either phase: the call never ends by an exception, it
\* ends only by returning a list, and until then it always has a next step.
C1_NeverRaises ==
    /\ outcome # "raised"
    /\ pc = "done" => outcome = "returned" /\ DOMAIN result = 1..Len(result)
    /\ pc # "done" => outcome = "running" /\ ENABLED Next

\* C1 witness: a call that met a failed enrichment in both phases and a
\* failed page request in discovery, and returned a non-empty list.
C1_Witness ==
    /\ pc = "done"
    /\ outcome = "returned"
    /\ "phase1_failed" \in warnings
    /\ p1_hist.failed > 0
    /\ phase2_failed > 0
    /\ result # << >>

\* the records the refined phase has to return: those of p2_log that were
\* enriched and whose price lies in [min_price, max_price], in order
InCallerRange(price) ==
    /\ min_price = None \/ min_price <= price
    /\ max_price = None \/ price <= max_price

RECURSIVE ExpectedResult(_)
ExpectedResult(log) ==
    IF log = << >>
    THEN << >>
    ELSE LET e == Head(log)
         IN  (IF e.ok /\ InCallerRange(e.price)
              THEN << [ id |-> e.id, price |-> e.price ] >>
              ELSE << >>) \o ExpectedResult(Tail(log))

\* C2: when the refined stream runs to its end without an orchestration
\* failure, the returned list is exactly, in stream order, the refined items
\* that were enriched and whose price is within the caller's bounds.
C2_RefinedResultExact ==
    (pc = "done" /\ filtered_results.state # "unbound"
                 /\ "phase2_failed" \notin warnings)
        => /\ result = ExpectedResult(p2_log)
           /\ \A i \in 1..Len(p2_log) : p2_log[i].id = i
           /\ Len(p2_log) = filtered_results.yielded

\* C2 witness: a completed refined stream of three items with both bounds
\* given: one enrichment failed, one record out of range, one returned.
C2_Witness ==
    /\ pc = "done"
    /\ "phase2_failed" \notin warnings
    /\ min_price # None /\ max_price # None
    /\ Len(p2_log) = 3
    /\ \E i \in 1..3 : ~p2_log[i].ok
    /\ \E i \in 1..3 : p2_log[i].ok /\ ~InCallerRange(p2_log[i].price)
    /\ Len(result) = 1

\* C3: a failed enrichment never aborts the batch.  Every enrichment step of
\* either phase, whatever its outcome, goes back to the head of its loop; a
\* failed one is recorded and changes neither the tallies nor the
\* aggregated items; and an item the stream yields next is enriched.
C3_ItemFailureIsolated ==
    [][ /\ pc = "p1_enrich" =>
            /\ pc' = "p1_pull"
            /\ outcome' = "running"
            /\ failed_items' - failed_items = p1_hist'.failed - p1_hist.failed
            /\ p1_hist'.failed # p1_hist.failed =>
                   /\ category_counter' = category_counter
                   /\ sample_count' = sample_count
        /\ pc = "p2_enrich" =>
            /\ pc' = "p2_pull"
            /\ outcome' = "running"
            /\ SubSeq(items_found', 1, Len(items_found)) = items_found
            /\ ~p2_log'[Len(p2_log')].ok =>
                   /\ phase2_failed' = phase2_failed + 1
                   /\ items_found' = items_found
        /\ (pc = "p1_pull" /\ search_results'.yielded > search_results.yielded
              /\ sample_count < SampleTarget /\ attempt_count < max_attempts)
            => pc' = "p1_enrich"
        /\ (pc = "p2_pull" /\ filtered_results'.yielded > filtered_results.yielded)
            => pc' = "p2_enrich"
      ]_vars

\* C3 witness: in the refined loop an item is being enriched after an
\* earlier enrichment failed, with an aggregated record still in place; the
\* same happened in discovery before.
C3_Witness ==
    /\ pc = "p2_enrich"
    /\ phase2_failed >= 1
    /\ items_found # << >>
    /\ failed_items >= 1
    /\ sample_count >= 1

\* C4: a failure of the refined stream itself makes the call return an
\* empty list, whatever was aggregated before.
C4_RefinedFailureReturnsEmpty ==
    (pc = "done" /\ "phase2_failed" \in warnings)
        => result = << >> /\ outcome = "returned"

\* C4 witness: the refined stream failed after a record was aggregated.
C4_Witness ==
    /\ pc = "done"
    /\ "phase2_failed" \in warnings
    /\ items_found # << >>

\* C5: a failure of discovery outside the per-item boundary leaves the
\* category set empty, and the refined phase is entered and runs without a
\* category filter; the call is not aborted.
C5_DiscoveryFailureNonFatal ==
    /\ pc = "p1_except" => top_category_ids = << >> /\ outcome = "running"
    /\ "phase1_failed" \in warnings =>
          /\ top_category_ids = << >>
          /\ pc \in RefinedStates \cup {"done"}
          /\ filtered_results.state # "unbound" =>
                "categoryIds" \notin DOMAIN filtered_results.data.searchCondition
          /\ pc = "done" =>
                /\ outcome = "returned"
                /\ last_request # << >>
                /\ last_request[1].stream = "refined"
                /\ "categoryIds" \notin DOMAIN last_request[1].data.searchCondition

\* C5 witness: a page request of discovery failed after a category was
\* tallied, and the call went on to return a record of the refined phase.
C5_Witness ==
    /\ "phase1_failed" \in warnings
    /\ category_counter # << >>
    /\ pc = "done"
    /\ result # << >>

\* C6: a refined page request carries a category filter exactly when
\* discovery produced a non-empty category list, and the filter is that
\* list; a completed sampling produces a category iff one was tallied; and
\* discovery requests carry no filter.
C6_CategoryFilterIffDiscovered ==
    /\ last_request # << >> =>
          LET cond == last_request[1].data.searchCondition
          IN  IF last_request[1].stream = "refined"
              THEN /\ "categoryIds" \in DOMAIN cond <=> top_category_ids # << >>
                   /\ "categoryIds" \in DOMAIN cond =>
                          cond.categoryIds = top_category_ids
              ELSE "categoryIds" \notin DOMAIN cond
    /\ SamplingCompleted =>
          /\ top_category_ids # << >> <=> category_counter # << >>
          /\ category_counter # << >> <=> sample_count > 0
    /\ (pc = "done" /\ DiscoveryOver /\ top_category_ids = << >>
          /\ "phase2_failed" \notin warnings)
        => outcome = "returned" /\ result = items_found

\* C6 witness: a refined page request carrying a filter of two categories.
C6_Witness ==
    /\ last_request # << >>
    /\ last_request[1].stream = "refined"
    /\ Len(top_category_ids) = 2
    /\ "categoryIds" \in DOMAIN last_request[1].data.searchCondition

\* C7: the sampler issues no enrichment once 30 successes or 50 attempts are
\* reached, so attempts <= 50 and successes <= 30 always; and when every
\* attempt was a success and the stream held more than 30 items, exactly 30
\* attempts were made and exactly 30 tallied.
C7_SamplerStops ==
    /\ attempt_count <= max_attempts
    /\ sample_count <= SampleTarget
    /\ pc = "p1_enrich" =>
          /\ sample_count < SampleTarget
          /\ attempt_count - 1 < max_attempts
    /\ (pc = "p1_summary" /\ sample_count = attempt_count
          /\ search_results.yielded > SampleTarget)
        => /\ attempt_count = SampleTarget
           /\ SumCounts(category_counter) = SampleTarget

\* C7 witness: the sampling loop ended on the 31st item of the stream after
\* 30 attempts, all successes.
C7_Witness ==
    /\ pc = "p1_summary"
    /\ attempt_count = 30
    /\ sample_count = 30
    /\ search_results.yielded = 31

\* C8: in discovery every enrichment that returns a record with a leaf
\* category is tallied and counted as a success, whatever the caller's
\* price bounds.
C8_DiscoveryIgnoresPriceBounds ==
    /\ sample_count = p1_hist.categorized
    /\ SumCounts(category_counter) = p1_hist.categorized

\* C9: the discovered list holds at most 3 distinct identifiers in descending
\* tally order, equal counts in first-seen order, and no identifier left out
\* ranks before one that is in; counts {A:5, B:5, C:3} first seen as A, C, B
\* give [A, B, C].
RanksBefore(counter, a, b) ==
    \/ CountOf(counter, a) > CountOf(counter, b)
    \/ /\ CountOf(counter, a) = CountOf(counter, b)
       /\ FirstSeen(counter, a) < FirstSeen(counter, b)

C9_TopCategoriesOrdered ==
    /\ SamplingCompleted =>
          LET top == top_category_ids
              ids == { top[i] : i \in 1..Len(top) }
          IN  /\ Len(top) = Min(TopN, Len(category_counter))
              /\ Cardinality(ids) = Len(top)
              /\ ids \subseteq CounterIds(category_counter)
              /\ \A i, j \in 1..Len(top) :
                     i < j => RanksBefore(category_counter, top[i], top[j])
              /\ \A a \in ids, b \in CounterIds(category_counter) \ ids :
                     RanksBefore(category_counter, a, b)
    /\ TopCategoryIds(<< [ id |-> "A", n |-> 5 ], [ id |-> "C", n |-> 3 ],
                         [ id |-> "B", n |-> 5 ] >>) = << "A", "B", "C" >>

\* C9 witness: tallies D:1, B:2, A:1 in that first-seen order give
\* [B, D, A]: B leads by count, D and A keep their first-seen order.
C9_Witness ==
    /\ pc = "p2_search"
    /\ category_counter = << [ id |-> "D", n |-> 1 ], [ id |-> "B", n |-> 2 ],
                             [ id |-> "A", n |-> 1 ] >>
    /\ top_category_ids = << "B", "D", "A" >>

\* C10 as stated: whenever discovery is over with fewer than 5 successes
\* (0 included), the low-sample warning has been emitted.
C10_LowSampleAlwaysFlagged ==
    (DiscoveryOver /\ sample_count < ReliabilityThreshold)
        => "low_sample" \in warnings

\* C10 amended: the low-sample warning is emitted exactly when the sampling
\* loop ended by itself with 1 to 4 successes; with no success, or when
\* discovery was cut short by a failure outside the per-item boundary, it
\* is not, and another warning is emitted ("no categories discovered" or
\* "discovery failed").
C10_LowSampleFlagged ==
    DiscoveryOver =>
        /\ "low_sample" \in warnings <=>
              /\ SamplingCompleted
              /\ 1 <= sample_count
              /\ sample_count < ReliabilityThreshold
        /\ (SamplingCompleted /\ sample_count = 0) => "no_categories" \in warnings
        /\ ~SamplingCompleted => "phase1_failed" \in warnings

\* C10 witness: 4 successes out of 50 attempts, the loop stopped by the
\* attempt ceiling on the 51st item, flagged.
C10_Witness ==
    /\ pc = "p2_search"
    /\ sample_count = 4
    /\ attempt_count = 50
    /\ search_results.yielded = 51
    /\ "max_attempts" \in warnings
    /\ "low_sample" \in warnings

\* the enrichment calls (getItemInfo) that have returned or raised so far
EnrichCalls ==
    (attempt_count - (IF pc = "p1_enrich" THEN 1 ELSE 0)) + Len(p2_log)

\* C16: after every enrichment call of either phase, whether it returned or
\* raised, the fixed delay is applied exactly once before the next
\* enrichment call: at every point the pauses made equal the calls made.
C16_DelayAfterEveryCall == delays = EnrichCalls

\* both phases had a failing and a returning enrichment call
C16_Witness ==
    /\ pc = "done"
    /\ p1_hist.failed = 1
    /\ attempt_count = 2
    /\ \E i, j \in 1..Len(p2_log) : p2_log[i].ok /\ ~p2_log[j].ok
    /\ delays = 2 + Len(p2_log)

\* C20: with a keyword that is empty or only whitespace, or with both price
\* bounds given and min_price > max_price, the call returns the empty list
\* and makes no search-page request and no enrichment call.
C20_InvalidInputNoRequests ==
    LET blank == \A i \in 1..Len(keyword) : keyword[i] = " "
        inverted == min_price # None /\ max_price # None
                    /\ min_price > max_price
    IN  (blank \/ inverted) =>
          /\ pc \in {"start", "done"}
          /\ last_request = << >>
          /\ search_results = Unbound
          /\ filtered_results = Unbound
          /\ attempt_count = 0
          /\ p2_log = << >>
          /\ delays = 0
          /\ pc = "done" => (result = << >> /\ outcome = "returned")

\* a whitespace keyword was rejected
C20_Witness ==
    /\ pc = "done"
    /\ keyword = << " " >>
    /\ "empty_keyword" \in warnings
    /\ result = << >>

\* an inverted price range was rejected
C20_WitnessRange ==
    /\ pc = "done"
    /\ keyword = << "k" >>
    /\ min_price = 2
    /\ max_price = 1
    /\ "invalid_range" \in warnings

\* C21: when the sampling loop of discovery has ended, every attempt is a
\* success or a recorded failure: attempts = successes + recorded failed
\* items; so when no category was discovered after at least one attempt
\* (the "all attempts failed" warning), every attempt is a recorded failure.
C21_AttemptsAreSuccessesOrFailures ==
    SamplingCompleted =>
        /\ attempt_count = sample_count + failed_items
        /\ "all_failed" \in warnings => failed_items = attempt_count

\* the position in the two-phase machine
PhaseRank(p) ==
    CASE p = "start" -> 0
      [] p = "p1_search" -> 1
      [] p \in DiscoveryStates -> 2
      [] p \in RefinedStates -> 3
      [] OTHER -> 4

\* C22: an invocation goes through discovery and then the refined phase and
\* never back.  The discovery stream (SORT_SCORE) is opened first, the
\* refined stream (SORT_PRICE, ascending) only once discovery has ended;
\* from then on the discovery generator is not resumed, no discovery page
\* request and no discovery enrichment is made; each phase is entered at
\* most once.
C22_TwoPhasesNoLoopBack ==
    [][ /\ PhaseRank(pc') >= PhaseRank(pc)
        /\ search_results' # search_results =>
              /\ pc \in {"p1_search", "p1_pull"}
              /\ search_results'.data.searchCondition.sort = "SORT_SCORE"
              /\ filtered_results = Unbound
        /\ filtered_results' # filtered_results =>
              /\ pc \in {"p2_search", "p2_pull"}
              /\ filtered_results'.data.searchCondition.sort = "SORT_PRICE"
              /\ filtered_results'.data.searchCondition.order = "ORDER_ASC"
        /\ (search_results.state = "unbound"
              /\ search_results'.state # "unbound") => pc = "p1_search"
        /\ (filtered_results.state = "unbound"
              /\ filtered_results'.state # "unbound") =>
              /\ pc = "p2_search"
              /\ search_results.state # "unbound"
        /\ PhaseRank(pc) >= 3 =>
              /\ search_results' = search_results
              /\ attempt_count' = attempt_count
              /\ sample_count' = sample_count
              /\ failed_items' = failed_items
              /\ p1_hist' = p1_hist
              /\ \A i \in 1..Len(last_request') :
                    last_request'[i] # last_request[i] =>
                        last_request'[i].stream = "refined"
      ]_vars

\* both streams were opened and consumed, and the call returned
C22_Witness ==
    /\ pc = "done"
    /\ search_results.yielded = 2
    /\ attempt_count = 2
    /\ filtered_results.yielded = 3
    /\ Len(p2_log) = 3
    /\ last_request # << >>
    /\ last_request[1].stream = "refined"

\* C25: the records enriched during discovery are only tallied: the list of
\* results is empty as long as the refined stream has not been opened, and
\* every record of it, and of the returned list, is the record of a
\* successful enrichment of the refined phase.
C25_ResultOnlyFromRefined ==
    LET refined(rec) ==
            \E j \in 1..Len(p2_log) :
                /\ p2_log[j].ok
                /\ rec = [ id |-> p2_log[j].id, price |-> p2_log[j].price ]
        successes == { j \in 1..Len(p2_log) : p2_log[j].ok }
    IN  /\ filtered_results.state = "unbound" =>
              (items_found = << >> /\ result = << >>)
        /\ \A i \in 1..Len(items_found) : refined(items_found[i])
        /\ \A i \in 1..Len(result) : refined(result[i])
        /\ Len(items_found) <= Cardinality(successes)
        /\ Len(result) <= Len(items_found)

\* discovery enriched two records with a category, the refined phase one
\* record, and that one record is the returned list
C25_Witness ==
    /\ pc = "done"
    /\ p1_hist.categorized = 2
    /\ Len(p2_log) = 1
    /\ Len(result) = 1
    /\ result[1].id = p2_log[1].id

\* C26: at every point the success count of discovery is the sum of the
\* category tallies, every tallied category identifier is non-empty and
\* listed once, and its count is at least 1.
C26_SuccessesEqualTallies ==
    /\ sample_count = SumCounts(category_counter)
    /\ \A i \in 1..Len(category_counter) :
          /\ category_counter[i].id \notin {"", NoCategory}
          /\ category_counter[i].n >= 1
          /\ \A j \in 1..Len(category_counter) :
                category_counter[j].id = category_counter[i].id => j = i

\* discovery is running with three successes in two categories
C26_Witness ==
    /\ pc = "p1_pull"
    /\ sample_count = 3
    /\ Len(category_counter) = 2
    /\ failed_items = 1

-----------------------------------------------------------------------------
(* Properties of the search stream and of search_page (SpecStream) *)

\* the answer of the marketplace lets the stream go on to another page
Continuing(resp) ==
    /\ resp.kind = "page"
    /\ resp.n > 0
    /\ resp.token \notin {"", NoToken, AbsentToken}

\* the items on the pages answered so far
RECURSIVE PageItems(_)
PageItems(log) ==
    IF log = << >> THEN 0
    ELSE (IF Head(log).kind = "page" THEN Head(log).n ELSE 0)
         + PageItems(Tail(log))

LastPage == page_log[Len(page_log)]

\* C11: the stream stops at the first page that has no items or an empty
\* next-cursor and sends no page request after it: every answer before the
\* last one was a page with items and a non-empty cursor.  The items the
\* consumer receives are the items of the pages, in page order and in the
\* order of each page; when the stream ends normally they are all the items
\* of the pages answered (an empty last page adds none, a last page with
\* items and an empty cursor adds its items).
C11_StreamStopsAtLastPage ==
    /\ Len(request_log) = Len(page_log)
    /\ \A i \in 1..(Len(page_log) - 1) : Continuing(page_log[i])
    /\ yield_log = [ k \in 1..Len(yield_log) |-> k ]
    /\ Len(yield_log) <= PageItems(page_log)
    /\ (s_pc = "ended" /\ s_exc = "none") =>
          /\ page_log # << >>
          /\ ~Continuing(LastPage)
          /\ Len(yield_log) = PageItems(page_log)

\* two items with a cursor, then one item with an empty cursor: three items
\* were yielded and the stream ended after two requests
C11_Witness ==
    /\ s_pc = "ended"
    /\ s_exc = "none"
    /\ Len(page_log) = 2
    /\ page_log[1].n = 2
    /\ LastPage.n = 1
    /\ LastPage.token = ""
    /\ yield_log = << 1, 2, 3 >>

\* C13: a page with items whose next-cursor field is absent is the last
\* page: its items are yielded and the stream ends without an exception.
C13_AbsentCursorEndsNormally ==
    ( /\ page_log # << >>
      /\ LastPage.kind = "page"
      /\ LastPage.n > 0
      /\ LastPage.token = AbsentToken )
    => /\ s_exc = "none"
       /\ s_pc = "ended" => Len(yield_log) = PageItems(page_log)

\* page_limit clamped to 1..120, written out
ClampedTo1And120(limit) ==
    IF limit < 1 THEN 1 ELSE IF limit > 120 THEN 120 ELSE limit

\* C14: every page request of search (each page) and of search_page carries
\* as page size the page_limit argument clamped to 1..120; 0, 121 and 60
\* give 1, 120 and 60.
C14_PageSizeClamped ==
    LET sizes == { request_log[i].pageSize : i \in 1..Len(request_log) }
                 \cup { page_result[i].data.pageSize :
                           i \in 1..Len(page_result) }
    IN  /\ \A size \in sizes : size = ClampedTo1And120(arg_page_limit)
        /\ arg_page_limit = 0 => sizes \subseteq {1}
        /\ arg_page_limit = 121 => sizes \subseteq {120}
        /\ arg_page_limit = 60 => sizes \subseteq {60}

\* search(page_limit=121) has sent its second page request with size 120
C14_Witness ==
    /\ arg_page_limit = 121
    /\ Len(request_log) = 2
    /\ request_log[2].pageSize = 120

\* C15: search_page returns the page's items and a next cursor that is None
\* exactly when the page has no items or the server's next-cursor is empty,
\* and the server's cursor unchanged otherwise; page_token None asks for
\* the first page, a cursor asks for that cursor.
C15_SearchPageCursor ==
    (page_result # << >> /\ s_exc = "none") =>
        LET p == page_result[1]
        IN  /\ p.n = p.resp.n
            /\ (p.next = NoToken) <=>
                   (p.resp.n = 0 \/ p.resp.token \in {"", NoToken})
            /\ p.next # NoToken => p.next = p.resp.token
            /\ p.page_token = NoToken => p.data.pageToken = "v1:0"
            /\ p.page_token = "c1" => p.data.pageToken = "c1"

\* search_page(page_token=None) got two items and the cursor c2
C15_Witness ==
    /\ page_result # << >>
    /\ s_exc = "none"
    /\ page_result[1].page_token = NoToken
    /\ page_result[1].resp.n = 2
    /\ page_result[1].resp.token = "c2"
    /\ page_result[1].next = "c2"

\* C17: a transport or authentication error on a page request reaches the
\* consumer of the stream as that same error; the request is not retried
\* and no page request follows it, so an error is always the last answer.
C17_PageErrorSurfaces ==
    /\ \A i \in 1..(Len(page_log) - 1) : page_log[i].kind # "error"
    /\ (page_log # << >> /\ LastPage.kind = "error") =>
          /\ s_exc = LastPage.exc
          /\ s_pc \in {"raised", "ended"}
          /\ stream.state = "closed"
          /\ Len(request_log) = Len(page_log)
    /\ (page_result # << >> /\ page_result[1].resp.kind = "error") =>
          s_exc = page_result[1].resp.exc

\* the second page request failed with 401 after two items; the consumer
\* called next() once more and got StopIteration without a third request
C17_Witness ==
    /\ s_pc = "ended"
    /\ s_exc = "HTTPError401"
    /\ Len(request_log) = 2
    /\ LastPage.kind = "error"
    /\ yield_log = << 1, 2 >>

-----------------------------------------------------------------------------
(* Termination of the search stream (SpecLoop) *)

\* C12: a stream that is consumed to its end terminates, even when the
\* server answers every request with a page of items and the same non-empty
\* next-cursor.
C12_StreamTerminates == <>(stream.state = "closed")

-----------------------------------------------------------------------------
(* Properties of the normalization (SpecNorm) *)

\* the string an identifier on the wire stands for: the decimal form of a
\* number, the string itself, "" for null, empty and absent
ExpectedId(w) ==
    CASE w.t = "int" -> ToString(w.i)
      [] w.t = "str" -> w.s
      [] OTHER -> ""

NestedIdPaths == {"seller.id", "item_category.id", "auction.id"}

\* the nested objects of the record carry the identifiers their wire
\* objects stand for
NestedIdsAsExpected(r) ==
    \A f \in NestedFields :
        /\ r.nested[f].t = "obj" <=> raw.data[f].t = "obj"
        /\ r.nested[f].t = "obj" =>
              r.nested[f].id = StrV(ExpectedId(raw.data[f].id))

AcceptedOnWire(f, w) ==
    \/ w.t = "absent"
    \/ f \in {"id", "name", "status"} /\ w.t = "str"
    \/ /\ f \in {"price", "created", "updated"}
       /\ \/ w.t = "int"
          \/ w.t = "str" /\ w.s \in { ToString(n) : n \in 0..MaxWireInt }

TopLevelRequired == {"id", "name", "price", "status", "created", "updated"}

MissingRequired == { f \in TopLevelRequired : raw.data[f].t = "absent" }

\* C19: a raw record whose required top-level fields (id, name, price,
\* status, created, updated) are all present normalizes; when the set M of
\* them is missing, normalization fails with a validation failure that
\* reports exactly the paths of M, each as missing, and gives no record.
\* (The fields present hold values their annotations accept.)
C19_MissingRequiredFields ==
    ( /\ record # << >>
      /\ raw.has_data
      /\ \A f \in TopLevelRequired : AcceptedOnWire(f, raw.data[f]) )
    => LET r == record[1]
       IN  /\ MissingRequired = {} => r.exc = "none"
           /\ MissingRequired # {} =>
                 /\ r.exc = "ValidationError"
                 /\ r.errors = { [ path |-> f, kind |-> "missing" ] :
                                   f \in MissingRequired }
                 /\ \A f \in TopLevelRequired : r.scalar[f] = Null

\* price and updated were missing, and exactly they were reported
C19_Witness ==
    /\ record # << >>
    /\ MissingRequired = {"price", "updated"}
    /\ raw.data.seller.t = "absent"
    /\ record[1].exc = "ValidationError"
    /\ record[1].errors = { [ path |-> "price", kind |-> "missing" ],
                            [ path |-> "updated", kind |-> "missing" ] }

-----------------------------------------------------------------------------
(* The requests of one search stream (SpecStream) *)

\* a request without its cursor
Frame(data) == [data EXCEPT !.pageToken = ""]

\* C23: in all page requests of one search stream only the page cursor
\* changes: search condition (keyword, exclude-keyword, sort, order, status,
\* category and brand filters), page size and the two session identifiers
\* are those of the first request; the first request carries the
\* first-page sentinel and every later one the next-cursor of the answer
\* before it, as it was returned.
C23_OnlyCursorChanges ==
    /\ \A i \in 1..Len(request_log) :
          Frame(request_log[i]) = Frame(request_log[1])
    /\ request_log # << >> => request_log[1].pageToken = "v1:0"
    /\ \A i \in 2..Len(request_log) :
          request_log[i].pageToken = page_log[i - 1].token

\* three requests were sent: the sentinel, then c1, then c2, all with the
\* brand filter of the call
C23_Witness ==
    /\ Len(request_log) = 3
    /\ request_log[1].pageToken = "v1:0"
    /\ page_log[1].token = "c1"
    /\ request_log[2].pageToken = "c1"
    /\ page_log[2].token = "c2"
    /\ request_log[3].pageToken = "c2"
    /\ request_log[3].userId = "MERCARI_BOT_u1"
    /\ request_log[3].searchSessionId = "MERCARI_BOT_u2"
    /\ "brandIds" \in DOMAIN request_log[3].searchCondition

-----------------------------------------------------------------------------
(* Properties of fetch (SpecFetch) *)

\* C24: the sign-request collaborator is called exactly once for every
\* outbound request and before it: every transport call is directly
\* preceded by a sign call and every sign call directly followed by a
\* transport call, with the same method and the request's final URL: the
\* bare endpoint for POST, the endpoint with the query string of the
\* parameters sent for GET.
C24_SignedOncePerRequest ==
    /\ \A i \in 1..Len(f_events) :
          LET e == f_events[i]
          IN  /\ e.ev = "sign" <=> i % 2 = 1
              /\ e.ev = "send" <=> i % 2 = 0
              /\ e.ev = "send" =>
                    /\ f_events[i - 1].method = e.method
                    /\ f_events[i - 1].url = e.url
                    /\ e.method = "POST" =>
                          e.url = "https://api.mercari.jp/v2/entities:search"
                    /\ e.method = "GET" =>
                          e.url = "https://api.mercari.jp/items/get?"
                                  \o urlencode(e.params)
    /\ Len(f_events) % 2 = 0

\* a GET for item m1 and then a POST of a search page were signed and sent
C24_Witness ==
    /\ Len(f_events) = 4
    /\ f_events[1].ev = "sign"
    /\ f_events[1].method = "GET"
    /\ f_events[1].url =
         "https://api.mercari.jp/items/get?id=m1&country_code=JP"
         \o "&include_item_attributes=true"
         \o "&include_product_page_component=true"
         \o "&include_non_ui_item_attributes=true"
         \o "&include_donation=true"
         \o "&include_offer_like_coupon_display=true"
         \o "&include_offer_coupon_display=true"
         \o "&include_item_attributes_sections=true"
         \o "&include_auction=true"
    /\ f_events[2].url = f_events[1].url
    /\ f_events[3].method = "POST"
    /\ f_events[3].url = "https://api.mercari.jp/v2/entities:search"
    /\ f_events[4].ev = "send"
    /\ f_exc = "HTTPError401"

-----------------------------------------------------------------------------
(* Properties of the result summary (SpecItem) *)

\* C27: the soldOut flag of every result summary built from a search
\* response is true if and only if the summary's status is
\* ITEM_STATUS_SOLD_OUT.
C27_SoldOutIffStatusSoldOut ==
    (summary # << >> /\ summary[1].exc = "none") =>
        (summary[1].soldOut <=> summary[1].status = "ITEM_STATUS_SOLD_OUT")

====
